---------------------------- MODULE Spec2Model ----------------------------
(***************************************************************************)
(* Quiz Master (src/app.py): a Streamlit application over one SQLite file. *)
(*                                                                         *)
(* Every browser session owns a st.session_state dictionary; every widget  *)
(* interaction re-runs the script from main() with the widget values of    *)
(* that session.  One action of this module is one such run, handled to    *)
(* completion: the guards are the page dispatch of main() and the early    *)
(* returns of the page function, the primed variables are the SQL writes   *)
(* and the session_state assignments of the run.                           *)
(*                                                                         *)
(* TEXT columns that the code trims, tests for emptiness or parses are     *)
(* sequences of one-character strings; usernames, passwords and roles are  *)
(* only compared verbatim and are TLA+ strings.                            *)
(***************************************************************************)
EXTENDS Integers, Sequences, FiniteSets, TLC

(***************************************************************************)
(* Bounds of the model.                                                    *)
(***************************************************************************)
\* browser sessions
NumSessions == 2
\* cap of the AUTOINCREMENT counter of users
MaxUserId == 2
\* cap of the AUTOINCREMENT counters of subjects, chapters and quizzes
MaxCatalogId == 1
\* cap of the AUTOINCREMENT counter of questions
MaxQuestionId == 2
\* cap of the AUTOINCREMENT counter of scores
MaxScoreId == 2
\* wall-clock readings datetime.now() can return
MaxTime == 1

Sessions == 1..NumSessions
Times == 1..MaxTime

(***************************************************************************)
(* Values.                                                                 *)
(***************************************************************************)
\* Python None where a string is expected (session_state.get, validate_login)
None == "<None>"
\* SQL NULL in a TEXT column read back as Python None
NULL == <<"<NULL>">>
\* SQL NULL in last_login
NoTime == 0
\* SQL NULL in dob; a date is the number of its day
NoDate == 0

\* Python truthiness of a TEXT value: None and "" are falsy
Truthy(x) == x # NULL /\ x # <<>>

IsSpace(c) == c = " "

\* str.strip(): drop leading and trailing whitespace
RECURSIVE LStrip(_)
LStrip(x) == IF x # <<>> /\ IsSpace(Head(x)) THEN LStrip(Tail(x)) ELSE x

RECURSIVE RStrip(_)
RStrip(x) ==
    IF x # <<>> /\ IsSpace(x[Len(x)]) THEN RStrip(SubSeq(x, 1, Len(x) - 1)) ELSE x

strip(x) == RStrip(LStrip(x))

VARIABLES
    users,          \* users table: id -> row
    subjects,       \* subjects table: id -> row
    chapters,       \* chapters table: id -> row
    quizzes,        \* quizzes table: id -> row
    questions,      \* questions table: id -> row
    scores,         \* scores table: id -> row
    sqlite_sequence,\* AUTOINCREMENT counters, one per table
    session_state,  \* per session: the st.session_state dictionary
    last_run,       \* the script run handled last: session, widget, values, message
    in_flight,      \* per session: the script run that has read but not yet written
    interleaved     \* some session took a step while another's run was in flight

vars == <<users, subjects, chapters, quizzes, questions, scores,
          sqlite_sequence, session_state, last_run, in_flight, interleaved>>

db == <<users, subjects, chapters, quizzes, questions, scores, sqlite_sequence>>
catalog == <<subjects, chapters, quizzes, questions>>
runs == <<in_flight, interleaved>>

(***************************************************************************)
(* init_db and the state of a fresh deployment.                            *)
(***************************************************************************)
AdminRow ==
    [username |-> "admin", password |-> "admin123",
     full_name |-> <<"A", "d", "m", "i", "n", " ", "U", "s", "e", "r">>,
     qualification |-> NULL, dob |-> NoDate, role |-> "admin", email |-> NULL,
     last_login |-> NoTime]

\* no script run is between its reads and its writes
Idle == [op |-> "idle"]

NoRun == [s |-> 0, op |-> "none", args |-> <<>>, msg |-> "none"]

Ran(s, op, args, msg) == [s |-> s, op |-> op, args |-> args, msg |-> msg]

Init ==
    /\ users = (1 :> AdminRow)
    /\ subjects = <<>>
    /\ chapters = <<>>
    /\ quizzes = <<>>
    /\ questions = <<>>
    /\ scores = <<>>
    /\ sqlite_sequence = [users |-> 1, subjects |-> 0, chapters |-> 0,
                          quizzes |-> 0, questions |-> 0, scores |-> 0]
    /\ session_state = [s \in Sessions |-> [page |-> "login"]]
    /\ last_run = NoRun
    /\ in_flight = [s \in DOMAIN session_state |-> Idle]
    /\ interleaved = FALSE

(***************************************************************************)
(* Helper functions.                                                       *)
(***************************************************************************)
page(s) == session_state[s].page

HasUsername(s) == "username" \in DOMAIN session_state[s]

get_current_user(s) == IF HasUsername(s) THEN session_state[s].username ELSE None

UserIdsNamed(username) == {id \in DOMAIN users : users[id].username = username}

\* SELECT ... FROM users WHERE username=? ; fetchone(): the row or None
UserExists(username) == UserIdsNamed(username) # {}

\* fetchone() of a SELECT on the UNIQUE column username
UserIdOf(username) == CHOOSE id \in UserIdsNamed(username) : TRUE

\* mutant of is_admin: the role cached in the session at login
is_admin_cached(s) ==
    /\ HasUsername(s)
    /\ session_state[s].role = "admin"

is_admin(s) ==
    /\ HasUsername(s)
    /\ UserExists(session_state[s].username)
    /\ users[UserIdOf(session_state[s].username)].role = "admin"

\* mutant of validate_login: the password is not compared
validate_login_any_password(username, password) ==
    IF UserExists(username) THEN users[UserIdOf(username)].role ELSE None

validate_login(username, password) ==
    IF /\ UserExists(username)
       /\ users[UserIdOf(username)].password = password
    THEN users[UserIdOf(username)].role
    ELSE None

\* mutant of UsernameTaken: the column carries no UNIQUE constraint
UsernameTaken_never(username) == FALSE

\* username TEXT UNIQUE: the INSERT raises sqlite3.IntegrityError
UsernameTaken(username) == \E id \in DOMAIN users : users[id].username = username

\* rowid of an INSERT into an AUTOINCREMENT table
NextId(table) == sqlite_sequence[table] + 1

(***************************************************************************)
(* Startup: the module-level call of init_db.                              *)
(***************************************************************************)
\* Path("quiz_master.db").exists(): the file is there once init_db has run,
\* and no statement of the program removes it
db_path_exists == TRUE

\* init_db creates the tables and seeds the admin only when the file is missing
init_db ==
    /\ IF ~db_path_exists
       THEN /\ users' = (1 :> AdminRow)
            /\ subjects' = <<>>
            /\ chapters' = <<>>
            /\ quizzes' = <<>>
            /\ questions' = <<>>
            /\ scores' = <<>>
            /\ sqlite_sequence' = [users |-> 1, subjects |-> 0, chapters |-> 0,
                                   quizzes |-> 0, questions |-> 0, scores |-> 0]
       ELSE UNCHANGED db
    /\ last_run' = Ran(0, "init_db", <<>>, "ok")
    /\ UNCHANGED session_state

(***************************************************************************)
(* Authentication: login_page, register_page, dashboard.                   *)
(***************************************************************************)
login_page_submit(s, username, password, now) ==
    /\ page(s) = "login"
    /\ LET role == validate_login(username, password)
           args == <<username, password, now>>
       IN IF role # None /\ role # ""
          THEN /\ session_state' = [session_state EXCEPT ![s] =
                     [page |-> "dashboard", username |-> username, role |-> role]]
               /\ users' = [id \in DOMAIN users |->
                     IF users[id].username = username
                     THEN [users[id] EXCEPT !.last_login = now]
                     ELSE users[id]]
               /\ last_run' = Ran(s, "login", args, "ok")
          ELSE /\ last_run' = Ran(s, "login", args, "Invalid credentials")
               /\ UNCHANGED <<users, session_state>>
    /\ UNCHANGED <<catalog, scores, sqlite_sequence>>

login_page_register(s) ==
    /\ page(s) = "login"
    /\ session_state' = [session_state EXCEPT ![s].page = "register"]
    /\ last_run' = Ran(s, "goto_register", <<>>, "ok")
    /\ UNCHANGED db

register_page_submit(s, username, password, confirm_password, full_name, email) ==
    /\ page(s) = "register"
    /\ LET args == <<username, password, confirm_password, full_name, email>>
       IN IF password # confirm_password
          THEN /\ last_run' = Ran(s, "register", args, "Passwords don't match!")
               /\ UNCHANGED <<users, sqlite_sequence, session_state>>
          ELSE IF UsernameTaken(username)
          THEN \* except sqlite3.IntegrityError
               /\ last_run' = Ran(s, "register", args, "Username already exists!")
               /\ UNCHANGED <<users, sqlite_sequence, session_state>>
          ELSE /\ NextId("users") <= MaxUserId
               /\ users' = users @@ (NextId("users") :>
                     [username |-> username, password |-> password,
                      full_name |-> full_name, qualification |-> NULL,
                      dob |-> NoDate, role |-> "user", email |-> email,
                      last_login |-> NoTime])
               /\ sqlite_sequence' =
                     [sqlite_sequence EXCEPT !.users = NextId("users")]
               /\ session_state' = [session_state EXCEPT ![s].page = "login"]
               /\ last_run' = Ran(s, "register", args, "ok")
    /\ UNCHANGED <<catalog, scores>>

register_page_back(s) ==
    /\ page(s) = "register"
    /\ session_state' = [session_state EXCEPT ![s].page = "login"]
    /\ last_run' = Ran(s, "back_to_login", <<>>, "ok")
    /\ UNCHANGED db

\* A click on one of the three buttons of dashboard(); a button the re-run
\* does not render (the other role's) is not clicked in that run.
dashboard_click(s, button) ==
    /\ page(s) = "dashboard"
    /\ session_state' = [session_state EXCEPT ![s] =
          IF button = "Go to Admin Dashboard" /\ is_admin(s)
          THEN [@ EXCEPT !.page = "admin_dashboard"]
          ELSE IF button = "Go to User Dashboard" /\ ~is_admin(s)
          THEN [@ EXCEPT !.page = "user_dashboard"]
          ELSE IF button = "Logout"
          THEN [page |-> "login"]
          ELSE @]
    /\ last_run' = Ran(s, "dashboard", <<button>>, "ok")
    /\ UNCHANGED db

DashboardButtons == {"Go to Admin Dashboard", "Go to User Dashboard", "Logout"}

(***************************************************************************)
(* Table helpers.                                                          *)
(***************************************************************************)
\* INSERT of one row into an AUTOINCREMENT table
Inserted(table, id, row) == table @@ (id :> row)

\* DELETE FROM table WHERE id=?
Deleted(table, id) == [i \in DOMAIN table \ {id} |-> table[i]]

\* mutant of CountChapters: the guard of Delete Subject counts nothing
CountChapters_none(subject_id) == 0

\* SELECT COUNT(*) FROM chapters WHERE subject_id=?
CountChapters(subject_id) ==
    Cardinality({c \in DOMAIN chapters : chapters[c].subject_id = subject_id})

\* SELECT COUNT(*) FROM quizzes WHERE chapter_id=?
CountQuizzes(chapter_id) ==
    Cardinality({q \in DOMAIN quizzes : quizzes[q].chapter_id = chapter_id})

\* mutant of CountQuestions: the guard of Delete Quiz counts nothing
CountQuestions_none(quiz_id) == 0

\* SELECT COUNT(*) FROM questions WHERE quiz_id=?
CountQuestions(quiz_id) ==
    Cardinality({q \in DOMAIN questions : questions[q].quiz_id = quiz_id})

\* SELECT COUNT(*) FROM scores WHERE user_id=?
CountUserScores(user_id) ==
    Cardinality({x \in DOMAIN scores : scores[x].user_id = user_id})

\* chapters c JOIN subjects s ON c.subject_id = s.id
ChapterOptions == {c \in DOMAIN chapters : chapters[c].subject_id \in DOMAIN subjects}

\* quizzes q JOIN chapters c JOIN subjects s
JoinedQuizzes == {q \in DOMAIN quizzes : quizzes[q].chapter_id \in ChapterOptions}

\* mutant of ActiveQuizzes: the query has no WHERE clause
ActiveQuizzes_all == {q \in DOMAIN quizzes : quizzes[q].chapter_id \in ChapterOptions}

\* ... WHERE q.is_active = 1
ActiveQuizzes == {q \in JoinedQuizzes : quizzes[q].is_active = 1}

(***************************************************************************)
(* Admin pages: manage_subjects.                                           *)
(***************************************************************************)
manage_subjects_add(s, name, description) ==
    /\ page(s) = "admin_dashboard"
    /\ LET args == <<name, description>>
       IN IF name = <<>>
          THEN /\ last_run' = Ran(s, "add_subject", args, "Subject name is required!")
               /\ UNCHANGED <<subjects, sqlite_sequence>>
          ELSE /\ NextId("subjects") <= MaxCatalogId
               /\ subjects' = Inserted(subjects, NextId("subjects"),
                     [name |-> strip(name), description |-> strip(description)])
               /\ sqlite_sequence' =
                     [sqlite_sequence EXCEPT !.subjects = NextId("subjects")]
               /\ last_run' = Ran(s, "add_subject", args, "Subject added!")
    /\ UNCHANGED <<users, chapters, quizzes, questions, scores, session_state>>

manage_subjects_update(s, subject_id, new_name, new_desc) ==
    /\ page(s) = "admin_dashboard"
    /\ subject_id \in DOMAIN subjects
    /\ LET args == <<subject_id, new_name, new_desc>>
       IN IF new_name = <<>>
          THEN /\ last_run' = Ran(s, "edit_subject", args, "Subject name is required!")
               /\ UNCHANGED subjects
          ELSE /\ subjects' = [subjects EXCEPT ![subject_id] =
                     [name |-> strip(new_name), description |-> strip(new_desc)]]
               /\ last_run' = Ran(s, "edit_subject", args, "Subject updated!")
    /\ UNCHANGED <<users, chapters, quizzes, questions, scores, sqlite_sequence,
                   session_state>>

manage_subjects_delete(s, subject_id) ==
    /\ page(s) = "admin_dashboard"
    /\ subject_id \in DOMAIN subjects
    /\ IF CountChapters(subject_id) > 0
       THEN /\ last_run' = Ran(s, "delete_subject", <<subject_id>>,
                               "Cannot delete - subject has chapters!")
            /\ UNCHANGED subjects
       ELSE /\ subjects' = Deleted(subjects, subject_id)
            /\ last_run' = Ran(s, "delete_subject", <<subject_id>>, "Subject deleted!")
    /\ UNCHANGED <<users, chapters, quizzes, questions, scores, sqlite_sequence,
                   session_state>>

(***************************************************************************)
(* Admin pages: manage_chapters.                                           *)
(***************************************************************************)
manage_chapters_add(s, subject_id, name, description) ==
    /\ page(s) = "admin_dashboard"
    /\ subject_id \in DOMAIN subjects
    /\ LET args == <<subject_id, name, description>>
       IN IF name = <<>>
          THEN /\ last_run' = Ran(s, "add_chapter", args, "Chapter name is required!")
               /\ UNCHANGED <<chapters, sqlite_sequence>>
          ELSE /\ NextId("chapters") <= MaxCatalogId
               /\ chapters' = Inserted(chapters, NextId("chapters"),
                     [subject_id |-> subject_id, name |-> strip(name),
                      description |-> strip(description)])
               /\ sqlite_sequence' =
                     [sqlite_sequence EXCEPT !.chapters = NextId("chapters")]
               /\ last_run' = Ran(s, "add_chapter", args, "Chapter added!")
    /\ UNCHANGED <<users, subjects, quizzes, questions, scores, session_state>>

manage_chapters_update(s, chapter_id, new_subject, new_name, new_desc) ==
    /\ page(s) = "admin_dashboard"
    /\ chapter_id \in ChapterOptions
    /\ new_subject \in DOMAIN subjects
    /\ LET args == <<chapter_id, new_subject, new_name, new_desc>>
       IN IF new_name = <<>>
          THEN /\ last_run' = Ran(s, "edit_chapter", args, "Chapter name is required!")
               /\ UNCHANGED chapters
          ELSE /\ chapters' = [chapters EXCEPT ![chapter_id] =
                     [subject_id |-> new_subject, name |-> strip(new_name),
                      description |-> strip(new_desc)]]
               /\ last_run' = Ran(s, "edit_chapter", args, "Chapter updated!")
    /\ UNCHANGED <<users, subjects, quizzes, questions, scores, sqlite_sequence,
                   session_state>>

manage_chapters_delete(s, chapter_id) ==
    /\ page(s) = "admin_dashboard"
    /\ chapter_id \in ChapterOptions
    /\ IF CountQuizzes(chapter_id) > 0
       THEN /\ last_run' = Ran(s, "delete_chapter", <<chapter_id>>,
                               "Cannot delete - chapter has quizzes!")
            /\ UNCHANGED chapters
       ELSE /\ chapters' = Deleted(chapters, chapter_id)
            /\ last_run' = Ran(s, "delete_chapter", <<chapter_id>>, "Chapter deleted!")
    /\ UNCHANGED <<users, subjects, quizzes, questions, scores, sqlite_sequence,
                   session_state>>

(***************************************************************************)
(* Duration text: str.split(':') and int().                                *)
(***************************************************************************)
DigitChars == {"0", "1", "2", "3", "4", "5", "6", "7", "8", "9"}

DigitValue(c) ==
    CASE c = "0" -> 0 [] c = "1" -> 1 [] c = "2" -> 2 [] c = "3" -> 3
      [] c = "4" -> 4 [] c = "5" -> 5 [] c = "6" -> 6 [] c = "7" -> 7
      [] c = "8" -> 8 [] c = "9" -> 9

\* x.split(sep): the pieces between the occurrences of sep
RECURSIVE split(_, _)
split(x, sep) ==
    IF \E i \in 1..Len(x) : x[i] = sep
    THEN LET i == CHOOSE k \in 1..Len(x) :
                     x[k] = sep /\ \A j \in 1..(k - 1) : x[j] # sep
         IN <<SubSeq(x, 1, i - 1)>> \o split(SubSeq(x, i + 1, Len(x)), sep)
    ELSE <<x>>

\* the digits of an int() literal: surrounding whitespace and one sign dropped
IntDigits(x) ==
    LET y == strip(x)
    IN IF y # <<>> /\ Head(y) \in {"+", "-"} THEN Tail(y) ELSE y

\* int(x) does not raise ValueError (digit-group underscores are not modelled)
IsIntLiteral(x) ==
    /\ IntDigits(x) # <<>>
    /\ \A i \in 1..Len(IntDigits(x)) : IntDigits(x)[i] \in DigitChars

RECURSIVE DigitsValue(_)
DigitsValue(d) ==
    IF d = <<>> THEN 0
    ELSE 10 * DigitsValue(SubSeq(d, 1, Len(d) - 1)) + DigitValue(d[Len(d)])

int(x) ==
    IF strip(x) # <<>> /\ Head(strip(x)) = "-"
    THEN 0 - DigitsValue(IntDigits(x))
    ELSE DigitsValue(IntDigits(x))

\* hours, minutes = map(int, d.split(':')) succeeds and passes the range test
DurationParses(d) ==
    /\ Len(split(d, ":")) = 2
    /\ IsIntLiteral(split(d, ":")[1])
    /\ IsIntLiteral(split(d, ":")[2])

\* mutant of DurationInRange: no range test after the parse
DurationInRange_any(d) == TRUE

DurationInRange(d) ==
    LET hours == int(split(d, ":")[1])
        minutes == int(split(d, ":")[2])
    IN ~(hours < 0 \/ minutes < 0 \/ minutes >= 60)

\* the form check of manage_quizzes: name, duration and a ':' in it
QuizFormFilled(name, time_duration) ==
    /\ name # <<>>
    /\ time_duration # <<>>
    /\ \E i \in 1..Len(time_duration) : time_duration[i] = ":"

(***************************************************************************)
(* Admin pages: manage_quizzes.                                            *)
(***************************************************************************)
manage_quizzes_add(s, chapter_id, name, description, date_of_quiz, time_duration) ==
    /\ page(s) = "admin_dashboard"
    /\ chapter_id \in ChapterOptions
    /\ LET args == <<chapter_id, name, description, date_of_quiz, time_duration>>
       IN IF ~QuizFormFilled(name, time_duration)
          THEN /\ last_run' = Ran(s, "add_quiz", args,
                                  "Please fill all required fields with valid data!")
               /\ UNCHANGED <<quizzes, sqlite_sequence>>
          ELSE IF ~(DurationParses(time_duration) /\ DurationInRange(time_duration))
          THEN /\ last_run' = Ran(s, "add_quiz", args,
                                  "Invalid duration format! Use HH:MM")
               /\ UNCHANGED <<quizzes, sqlite_sequence>>
          ELSE /\ NextId("quizzes") <= MaxCatalogId
               /\ quizzes' = Inserted(quizzes, NextId("quizzes"),
                     [chapter_id |-> chapter_id, name |-> strip(name),
                      description |-> strip(description),
                      date_of_quiz |-> date_of_quiz,
                      time_duration |-> time_duration, is_active |-> 1])
               /\ sqlite_sequence' =
                     [sqlite_sequence EXCEPT !.quizzes = NextId("quizzes")]
               /\ last_run' = Ran(s, "add_quiz", args, "Quiz added!")
    /\ UNCHANGED <<users, subjects, chapters, questions, scores, session_state>>

manage_quizzes_update(s, quiz_id, new_chapter, new_name, new_desc, new_date, new_duration, is_active) ==
    /\ page(s) = "admin_dashboard"
    /\ quiz_id \in JoinedQuizzes
    /\ new_chapter \in ChapterOptions
    /\ LET args == <<quiz_id, new_chapter, new_name, new_desc, new_date,
                     new_duration, is_active>>
       IN IF ~QuizFormFilled(new_name, new_duration)
          THEN /\ last_run' = Ran(s, "edit_quiz", args,
                                  "Please fill all required fields with valid data!")
               /\ UNCHANGED quizzes
          ELSE IF ~(DurationParses(new_duration) /\ DurationInRange(new_duration))
          THEN /\ last_run' = Ran(s, "edit_quiz", args,
                                  "Invalid duration format! Use HH:MM")
               /\ UNCHANGED quizzes
          ELSE /\ quizzes' = [quizzes EXCEPT ![quiz_id] =
                     [chapter_id |-> new_chapter, name |-> strip(new_name),
                      description |-> strip(new_desc), date_of_quiz |-> new_date,
                      time_duration |-> new_duration,
                      is_active |-> IF is_active THEN 1 ELSE 0]]
               /\ last_run' = Ran(s, "edit_quiz", args, "Quiz updated!")
    /\ UNCHANGED <<users, subjects, chapters, questions, scores, sqlite_sequence,
                   session_state>>

manage_quizzes_delete(s, quiz_id) ==
    /\ page(s) = "admin_dashboard"
    /\ quiz_id \in JoinedQuizzes
    /\ IF CountQuestions(quiz_id) > 0
       THEN /\ last_run' = Ran(s, "delete_quiz", <<quiz_id>>,
                               "Cannot delete - quiz has questions!")
            /\ UNCHANGED quizzes
       ELSE /\ quizzes' = Deleted(quizzes, quiz_id)
            /\ last_run' = Ran(s, "delete_quiz", <<quiz_id>>, "Quiz deleted!")
    /\ UNCHANGED <<users, subjects, chapters, questions, scores, sqlite_sequence,
                   session_state>>

(***************************************************************************)
(* Admin pages: manage_questions.                                          *)
(***************************************************************************)
\* option.strip() if option else None
OptionalText(option) == IF option # <<>> THEN strip(option) ELSE NULL

QuestionRow(quiz_id, question, option1, option2, option3, option4, correct_option) ==
    [quiz_id |-> quiz_id, question_statement |-> strip(question),
     option1 |-> strip(option1), option2 |-> strip(option2),
     option3 |-> OptionalText(option3), option4 |-> OptionalText(option4),
     correct_option |-> correct_option]

\* the form check of manage_questions
QuestionFormFilled(question, option1, option2) ==
    ~(question = <<>> \/ option1 = <<>> \/ option2 = <<>>)

manage_questions_add(s, quiz_id, question, option1, option2, option3, option4, correct_option) ==
    /\ page(s) = "admin_dashboard"
    /\ quiz_id \in ActiveQuizzes
    /\ LET args == <<quiz_id, question, option1, option2, option3, option4,
                     correct_option>>
       IN IF ~QuestionFormFilled(question, option1, option2)
          THEN /\ last_run' = Ran(s, "add_question", args,
                                  "Please fill all required fields!")
               /\ UNCHANGED <<questions, sqlite_sequence>>
          ELSE /\ NextId("questions") <= MaxQuestionId
               /\ questions' = Inserted(questions, NextId("questions"),
                     QuestionRow(quiz_id, question, option1, option2, option3,
                                 option4, correct_option))
               /\ sqlite_sequence' =
                     [sqlite_sequence EXCEPT !.questions = NextId("questions")]
               /\ last_run' = Ran(s, "add_question", args, "Question added!")
    /\ UNCHANGED <<users, subjects, chapters, quizzes, scores, session_state>>

\* the questions the page lists: those of the selected (active) quiz
ListedQuestions == {q \in DOMAIN questions : questions[q].quiz_id \in ActiveQuizzes}

manage_questions_update(s, question_id, new_quiz, new_question, new_option1, new_option2, new_option3, new_option4, new_correct) ==
    /\ page(s) = "admin_dashboard"
    /\ question_id \in ListedQuestions
    /\ new_quiz \in ActiveQuizzes
    /\ LET args == <<question_id, new_quiz, new_question, new_option1, new_option2,
                     new_option3, new_option4, new_correct>>
       IN IF ~QuestionFormFilled(new_question, new_option1, new_option2)
          THEN /\ last_run' = Ran(s, "edit_question", args,
                                  "Please fill all required fields!")
               /\ UNCHANGED questions
          ELSE /\ questions' = [questions EXCEPT ![question_id] =
                     QuestionRow(new_quiz, new_question, new_option1, new_option2,
                                 new_option3, new_option4, new_correct)]
               /\ last_run' = Ran(s, "edit_question", args, "Question updated!")
    /\ UNCHANGED <<users, subjects, chapters, quizzes, scores, sqlite_sequence,
                   session_state>>

manage_questions_delete(s, question_id) ==
    /\ page(s) = "admin_dashboard"
    /\ question_id \in ListedQuestions
    /\ questions' = Deleted(questions, question_id)
    /\ last_run' = Ran(s, "delete_question", <<question_id>>, "Question deleted!")
    /\ UNCHANGED <<users, subjects, chapters, quizzes, scores, sqlite_sequence,
                   session_state>>

(***************************************************************************)
(* Admin pages: manage_users.                                              *)
(***************************************************************************)
\* new_qual is NULL when the Qualification input, whose value is the stored
\* NULL, is left untouched: st.text_input then returns None and
\* new_qual.strip() raises AttributeError before the UPDATE.
manage_users_update(s, user_id, new_fullname, new_qual, new_dob, new_email, new_role) ==
    /\ page(s) = "admin_dashboard"
    /\ user_id \in DOMAIN users
    /\ new_qual = NULL => users[user_id].qualification = NULL
    /\ LET args == <<user_id, new_fullname, new_qual, new_dob, new_email, new_role>>
       IN IF new_qual = NULL
          THEN /\ last_run' = Ran(s, "edit_user", args, "exception")
               /\ UNCHANGED users
          ELSE /\ users' = [users EXCEPT ![user_id] =
                     [@ EXCEPT !.full_name = strip(new_fullname),
                               !.qualification = strip(new_qual),
                               !.dob = new_dob,
                               !.email = strip(new_email),
                               !.role = new_role]]
               /\ last_run' = Ran(s, "edit_user", args, "User updated!")
    /\ UNCHANGED <<catalog, scores, sqlite_sequence, session_state>>

\* the delete guard of manage_users: the message of the refusal, or "ok"
DeleteUserCheck(user_id) ==
    IF users[user_id].role = "admin" THEN "Cannot delete admin user!"
    ELSE IF CountUserScores(user_id) > 0 THEN "Cannot delete - user has quiz attempts!"
    ELSE "ok"

manage_users_delete(s, user_id) ==
    /\ page(s) = "admin_dashboard"
    /\ user_id \in DOMAIN users
    /\ IF DeleteUserCheck(user_id) # "ok"
       THEN /\ last_run' = Ran(s, "delete_user", <<user_id>>, DeleteUserCheck(user_id))
            /\ UNCHANGED users
       ELSE /\ users' = Deleted(users, user_id)
            /\ last_run' = Ran(s, "delete_user", <<user_id>>, "User deleted!")
    /\ UNCHANGED <<catalog, scores, sqlite_sequence, session_state>>

(***************************************************************************)
(* Admin pages: admin_reports.                                             *)
(***************************************************************************)
\* mutant of QuizStatsJoin: the join keeps active quizzes only
QuizStatsJoin_active ==
    {j \in (DOMAIN scores) \X (DOMAIN quizzes) :
        scores[j[1]].quiz_id = j[2] /\ quizzes[j[2]].is_active = 1}

\* FROM scores s JOIN quizzes q ON s.quiz_id = q.id: the joined (s.id, q.id)
QuizStatsJoin ==
    {j \in (DOMAIN scores) \X (DOMAIN quizzes) : scores[j[1]].quiz_id = j[2]}

\* ... GROUP BY q.id, q.name with COUNT(s.id) as attempts: one entry per group
quiz_stats ==
    [q \in {j[2] : j \in QuizStatsJoin} |->
        [quiz |-> quizzes[q].name,
         attempts |-> Cardinality({j \in QuizStatsJoin : j[2] = q})]]

\* FROM scores s JOIN users u ON s.user_id = u.id
UserStatsJoin ==
    {j \in (DOMAIN scores) \X (DOMAIN users) : scores[j[1]].user_id = j[2]}

\* ... GROUP BY u.id, u.username, u.full_name with COUNT(s.id) as attempts
user_stats ==
    [u \in {j[2] : j \in UserStatsJoin} |->
        [username |-> users[u].username,
         attempts |-> Cardinality({j \in UserStatsJoin : j[2] = u})]]

\* a run of the Reports page: the two tables it shows
admin_reports(s) ==
    /\ page(s) = "admin_dashboard"
    /\ last_run' = Ran(s, "admin_reports", <<quiz_stats, user_stats>>, "ok")
    /\ UNCHANGED <<db, session_state>>

(***************************************************************************)
(* User pages: take_quiz.                                                  *)
(***************************************************************************)
\* SELECT ... FROM questions WHERE quiz_id=?
QuestionsOf(quiz_id) == {q \in DOMAIN questions : questions[q].quiz_id = quiz_id}

OptionSlots(q) ==
    <<questions[q].option1, questions[q].option2, questions[q].option3,
      questions[q].option4>>

\* the options of the radio: option1, option2, and option3/option4 when truthy
RadioOptions(q) ==
    <<questions[q].option1, questions[q].option2>>
      \o (IF Truthy(questions[q].option3) THEN <<questions[q].option3>> ELSE <<>>)
      \o (IF Truthy(questions[q].option4) THEN <<questions[q].option4>> ELSE <<>>)

\* mutant of already_taken: the two parameters of the query are swapped
already_taken_swapped(quiz_id, user_id) ==
    \E x \in DOMAIN scores :
        scores[x].quiz_id = user_id /\ scores[x].user_id = quiz_id

\* SELECT COUNT(*) FROM scores WHERE quiz_id=? AND user_id=? ... > 0
already_taken(quiz_id, user_id) ==
    \E x \in DOMAIN scores :
        scores[x].quiz_id = quiz_id /\ scores[x].user_id = user_id

\* mutant of selected_option: the slots are numbered from 0
selected_option_from_zero(q, user_answer) ==
    IF \E i \in 1..4 : Truthy(OptionSlots(q)[i]) /\ OptionSlots(q)[i] = user_answer
    THEN (CHOOSE i \in 1..4 :
            /\ Truthy(OptionSlots(q)[i]) /\ OptionSlots(q)[i] = user_answer
            /\ \A j \in 1..(i - 1) :
                  ~(Truthy(OptionSlots(q)[j]) /\ OptionSlots(q)[j] = user_answer)) - 1
    ELSE 0 - 1

\* the option number the loop of take_quiz recovers; 0 stands for None
selected_option(q, user_answer) ==
    IF \E i \in 1..4 : Truthy(OptionSlots(q)[i]) /\ OptionSlots(q)[i] = user_answer
    THEN CHOOSE i \in 1..4 :
            /\ Truthy(OptionSlots(q)[i]) /\ OptionSlots(q)[i] = user_answer
            /\ \A j \in 1..(i - 1) :
                  ~(Truthy(OptionSlots(q)[j]) /\ OptionSlots(q)[j] = user_answer)
    ELSE 0

\* score of the answers: one point per question whose recovered option is correct
Grade(answers) ==
    Cardinality({q \in DOMAIN answers :
                    selected_option(q, answers[q]) = questions[q].correct_option})

\* mutant of TakeQuizGate: the questions are fetched before the attempt check
TakeQuizGate_questions_first(s, selected_quiz) ==
    IF ActiveQuizzes = {} THEN "No quizzes available at the moment."
    ELSE IF ~UserExists(get_current_user(s)) THEN "exception"
    ELSE IF ~DurationParses(quizzes[selected_quiz].time_duration) THEN "exception"
    ELSE IF QuestionsOf(selected_quiz) = {} THEN "This quiz has no questions yet."
    ELSE IF already_taken(selected_quiz, UserIdOf(get_current_user(s)))
    THEN "You have already taken this quiz."
    ELSE "form"

\* mutant of TakeQuizGate: the form is rendered for a quiz without questions
TakeQuizGate_no_questions_check(s, selected_quiz) ==
    IF ActiveQuizzes = {} THEN "No quizzes available at the moment."
    ELSE IF ~UserExists(get_current_user(s)) THEN "exception"
    ELSE IF already_taken(selected_quiz, UserIdOf(get_current_user(s)))
    THEN "You have already taken this quiz."
    ELSE IF ~DurationParses(quizzes[selected_quiz].time_duration) THEN "exception"
    ELSE "form"

\* how far a run of take_quiz gets: the message of its early return, or "form"
TakeQuizGate(s, selected_quiz) ==
    IF ActiveQuizzes = {} THEN "No quizzes available at the moment."
    ELSE IF ~UserExists(get_current_user(s)) THEN "exception"
    ELSE IF already_taken(selected_quiz, UserIdOf(get_current_user(s)))
    THEN "You have already taken this quiz."
    ELSE IF ~DurationParses(quizzes[selected_quiz].time_duration) THEN "exception"
    ELSE IF QuestionsOf(selected_quiz) = {} THEN "This quiz has no questions yet."
    ELSE "form"

\* what a user can pick in the radios of a quiz (none when none is rendered)
Picks(quiz_id) == {<<>>} \cup [QuestionsOf(quiz_id) -> 1..4]

\* picks: the position chosen in each rendered radio
take_quiz(s, selected_quiz, submitted, picks, now) ==
    /\ page(s) = "user_dashboard"
    /\ IF ActiveQuizzes = {} THEN selected_quiz = 0 ELSE selected_quiz \in ActiveQuizzes
    /\ LET gate == TakeQuizGate(s, selected_quiz)
       IN IF gate # "form"
          THEN \* no radio is rendered: the run reads no answer
               /\ picks = <<>>
               /\ last_run' = Ran(s, "take_quiz", <<selected_quiz, submitted>>, gate)
               /\ UNCHANGED <<scores, sqlite_sequence>>
          ELSE /\ DOMAIN picks = QuestionsOf(selected_quiz)
               /\ \A q \in DOMAIN picks : picks[q] \in 1..Len(RadioOptions(q))
               /\ LET answers == [q \in DOMAIN picks |-> RadioOptions(q)[picks[q]]]
                      args == <<selected_quiz, submitted, answers, now>>
                  IN IF ~submitted
                     THEN /\ \A q \in DOMAIN picks : picks[q] = 1
                          /\ last_run' = Ran(s, "take_quiz", args, "form")
                          /\ UNCHANGED <<scores, sqlite_sequence>>
                     ELSE /\ NextId("scores") <= MaxScoreId
                          /\ scores' = Inserted(scores, NextId("scores"),
                                [quiz_id |-> selected_quiz,
                                 user_id |-> UserIdOf(get_current_user(s)),
                                 time_stamp |-> now,
                                 total_scored |-> Grade(answers),
                                 total_questions |-> Cardinality(QuestionsOf(selected_quiz))])
                          /\ sqlite_sequence' =
                                [sqlite_sequence EXCEPT !.scores = NextId("scores")]
                          /\ last_run' = Ran(s, "take_quiz", args, "Quiz submitted!")
    /\ UNCHANGED <<users, catalog, session_state>>

\* my_scores and admin_reports: total_scored*100.0/total_questions, here its
\* integer part; SQLite gives NULL for a division by zero
percentage(x) ==
    IF scores[x].total_questions = 0 THEN NULL
    ELSE (scores[x].total_scored * 100) \div scores[x].total_questions

(***************************************************************************)
(* User pages: user_profile.                                               *)
(***************************************************************************)
\* mutant of ProfilePasswordMismatch: the confirmation is not compared
ProfilePasswordMismatch_never(new_password, confirm_password) == FALSE

\* if new_password and new_password != confirm_password
ProfilePasswordMismatch(new_password, confirm_password) ==
    new_password # "" /\ new_password # confirm_password

\* new_qual is NULL when the Qualification input, whose value is the stored
\* NULL, is left untouched: new_qual.strip() then raises AttributeError while
\* the parameters of the UPDATE are built.
user_profile_update(s, new_fullname, new_qual, new_dob, new_email, new_password, confirm_password) ==
    /\ page(s) = "user_dashboard"
    /\ UserExists(get_current_user(s))
    /\ new_qual = NULL => users[UserIdOf(get_current_user(s))].qualification = NULL
    /\ LET username == get_current_user(s)
           args == <<new_fullname, new_qual, new_dob, new_email, new_password,
                     confirm_password>>
       IN IF ProfilePasswordMismatch(new_password, confirm_password)
          THEN /\ last_run' = Ran(s, "update_profile", args, "Passwords don't match!")
               /\ UNCHANGED users
          ELSE IF new_qual = NULL
          THEN /\ last_run' = Ran(s, "update_profile", args, "exception")
               /\ UNCHANGED users
          ELSE /\ users' = [id \in DOMAIN users |->
                     IF users[id].username = username
                     THEN [users[id] EXCEPT
                             !.full_name = strip(new_fullname),
                             !.qualification = strip(new_qual),
                             !.dob = new_dob,
                             !.email = strip(new_email),
                             !.password = IF new_password # "" THEN new_password ELSE @]
                     ELSE users[id]]
               /\ last_run' = Ran(s, "update_profile", args, "Profile updated!")
    /\ UNCHANGED <<catalog, scores, sqlite_sequence, session_state>>

(***************************************************************************)
(* Script runs of two sessions side by side.  Streamlit runs the script of  *)
(* each session in its own thread, each run on its own connection and with  *)
(* no transaction around a SELECT and the write that follows it.  The runs  *)
(* below are split where they go from reading to writing: the first step is *)
(* the SELECTs, the second the INSERT or DELETE; in_flight[s] holds what    *)
(* the run of session s has read.                                           *)
(***************************************************************************)
\* a step of session s falls between the two steps of another session's run
Interleaves(s) == \E o \in DOMAIN in_flight \ {s} : in_flight[o] # Idle

\* a run of session s handled in one step
Atomically(s, A) ==
    /\ in_flight[s] = Idle
    /\ A
    /\ in_flight' = in_flight
    /\ interleaved' = (interleaved \/ Interleaves(s))

\* take_quiz up to the rendered form: the active quizzes, the attempt check,
\* the duration and the questions, with the first radio entry selected
take_quiz_read(s, selected_quiz) ==
    /\ page(s) = "user_dashboard"
    /\ in_flight[s] = Idle
    /\ selected_quiz \in ActiveQuizzes
    /\ TakeQuizGate(s, selected_quiz) = "form"
    /\ in_flight' = [in_flight EXCEPT ![s] =
          [op |-> "take_quiz", quiz_id |-> selected_quiz,
           user_id |-> UserIdOf(get_current_user(s)),
           answers |-> [q \in QuestionsOf(selected_quiz) |-> RadioOptions(q)[1]]]]
    /\ interleaved' = (interleaved \/ Interleaves(s))
    /\ last_run' = Ran(s, "take_quiz_read", <<selected_quiz>>, "form")
    /\ UNCHANGED <<db, session_state>>

\* take_quiz from 'if submitted': the grading queries and the INSERT
take_quiz_write(s) ==
    /\ in_flight[s] # Idle
    /\ in_flight[s].op = "take_quiz"
    /\ LET run == in_flight[s]
           args == <<run.quiz_id, TRUE, run.answers, 1>>
       IN IF \E q \in DOMAIN run.answers : q \notin DOMAIN questions
          THEN \* c.fetchone() is None for a question deleted meanwhile
               /\ last_run' = Ran(s, "take_quiz_write", args, "exception")
               /\ UNCHANGED <<scores, sqlite_sequence>>
          ELSE /\ NextId("scores") <= MaxScoreId
               /\ scores' = Inserted(scores, NextId("scores"),
                     [quiz_id |-> run.quiz_id, user_id |-> run.user_id,
                      time_stamp |-> 1, total_scored |-> Grade(run.answers),
                      total_questions |-> Cardinality(DOMAIN run.answers)])
               /\ sqlite_sequence' = [sqlite_sequence EXCEPT !.scores = NextId("scores")]
               /\ last_run' = Ran(s, "take_quiz_write", args, "Quiz submitted!")
    /\ in_flight' = [in_flight EXCEPT ![s] = Idle]
    /\ interleaved' = (interleaved \/ Interleaves(s))
    /\ UNCHANGED <<users, catalog, session_state>>

\* Delete Subject up to its guard: SELECT COUNT(*) FROM chapters
manage_subjects_delete_count(s, subject_id) ==
    /\ page(s) = "admin_dashboard"
    /\ in_flight[s] = Idle
    /\ subject_id \in DOMAIN subjects
    /\ IF CountChapters(subject_id) > 0
       THEN /\ last_run' = Ran(s, "delete_subject", <<subject_id>>,
                               "Cannot delete - subject has chapters!")
            /\ in_flight' = in_flight
       ELSE /\ last_run' = Ran(s, "delete_subject_count", <<subject_id>>, "ok")
            /\ in_flight' = [in_flight EXCEPT ![s] =
                  [op |-> "delete_subject", id |-> subject_id]]
    /\ interleaved' = (interleaved \/ Interleaves(s))
    /\ UNCHANGED <<db, session_state>>

\* Delete Subject from its else branch: DELETE FROM subjects
manage_subjects_delete_execute(s) ==
    /\ in_flight[s] # Idle
    /\ in_flight[s].op = "delete_subject"
    /\ subjects' = Deleted(subjects, in_flight[s].id)
    /\ last_run' = Ran(s, "delete_subject", <<in_flight[s].id>>, "Subject deleted!")
    /\ in_flight' = [in_flight EXCEPT ![s] = Idle]
    /\ interleaved' = (interleaved \/ Interleaves(s))
    /\ UNCHANGED <<users, chapters, quizzes, questions, scores, sqlite_sequence,
                   session_state>>

\* Delete Chapter up to its guard: SELECT COUNT(*) FROM quizzes
manage_chapters_delete_count(s, chapter_id) ==
    /\ page(s) = "admin_dashboard"
    /\ in_flight[s] = Idle
    /\ chapter_id \in ChapterOptions
    /\ IF CountQuizzes(chapter_id) > 0
       THEN /\ last_run' = Ran(s, "delete_chapter", <<chapter_id>>,
                               "Cannot delete - chapter has quizzes!")
            /\ in_flight' = in_flight
       ELSE /\ last_run' = Ran(s, "delete_chapter_count", <<chapter_id>>, "ok")
            /\ in_flight' = [in_flight EXCEPT ![s] =
                  [op |-> "delete_chapter", id |-> chapter_id]]
    /\ interleaved' = (interleaved \/ Interleaves(s))
    /\ UNCHANGED <<db, session_state>>

\* Delete Chapter from its else branch: DELETE FROM chapters
manage_chapters_delete_execute(s) ==
    /\ in_flight[s] # Idle
    /\ in_flight[s].op = "delete_chapter"
    /\ chapters' = Deleted(chapters, in_flight[s].id)
    /\ last_run' = Ran(s, "delete_chapter", <<in_flight[s].id>>, "Chapter deleted!")
    /\ in_flight' = [in_flight EXCEPT ![s] = Idle]
    /\ interleaved' = (interleaved \/ Interleaves(s))
    /\ UNCHANGED <<users, subjects, quizzes, questions, scores, sqlite_sequence,
                   session_state>>

\* Delete Quiz up to its guard: SELECT COUNT(*) FROM questions
manage_quizzes_delete_count(s, quiz_id) ==
    /\ page(s) = "admin_dashboard"
    /\ in_flight[s] = Idle
    /\ quiz_id \in JoinedQuizzes
    /\ IF CountQuestions(quiz_id) > 0
       THEN /\ last_run' = Ran(s, "delete_quiz", <<quiz_id>>,
                               "Cannot delete - quiz has questions!")
            /\ in_flight' = in_flight
       ELSE /\ last_run' = Ran(s, "delete_quiz_count", <<quiz_id>>, "ok")
            /\ in_flight' = [in_flight EXCEPT ![s] =
                  [op |-> "delete_quiz", id |-> quiz_id]]
    /\ interleaved' = (interleaved \/ Interleaves(s))
    /\ UNCHANGED <<db, session_state>>

\* Delete Quiz from its else branch: DELETE FROM quizzes
manage_quizzes_delete_execute(s) ==
    /\ in_flight[s] # Idle
    /\ in_flight[s].op = "delete_quiz"
    /\ quizzes' = Deleted(quizzes, in_flight[s].id)
    /\ last_run' = Ran(s, "delete_quiz", <<in_flight[s].id>>, "Quiz deleted!")
    /\ in_flight' = [in_flight EXCEPT ![s] = Idle]
    /\ interleaved' = (interleaved \/ Interleaves(s))
    /\ UNCHANGED <<users, subjects, chapters, questions, scores, sqlite_sequence,
                   session_state>>

(***************************************************************************)
(* Specification Spec: accounts and sessions.  Every session starts on the *)
(* login page of a fresh deployment; the runs are those of login_page,     *)
(* register_page, dashboard and manage_users.                              *)
(***************************************************************************)
Usernames == {"admin", "bob"}
Passwords == {"admin123", "pw"}
Roles == {"user", "admin"}

AccountsNext ==
    /\ UNCHANGED runs
    /\ \E s \in Sessions :
        \/ \E u \in Usernames, p \in Passwords, now \in Times :
              login_page_submit(s, u, p, now)
        \/ login_page_register(s)
        \/ \E u \in Usernames, c \in Passwords :
              register_page_submit(s, u, "pw", c, <<"B">>, <<"b", "@">>)
        \/ register_page_back(s)
        \/ \E b \in DashboardButtons : dashboard_click(s, b)
        \/ \E id \in DOMAIN users, q \in {NULL, <<"q", " ">>}, r \in Roles :
              manage_users_update(s, id, <<"A", " ">>, q, 1, <<>>, r)
        \/ \E id \in DOMAIN users : manage_users_delete(s, id)

Spec == Init /\ [][AccountsNext]_vars

(***************************************************************************)
(* Specification SpecApp: the whole application from a fresh deployment,   *)
(* every page and every operation, with one text per field.                *)
(***************************************************************************)
AppNext ==
    /\ UNCHANGED runs
    /\ \E s \in Sessions :
        \/ \E u \in Usernames, p \in Passwords : login_page_submit(s, u, p, 1)
        \/ login_page_register(s)
        \/ register_page_submit(s, "bob", "pw", "pw", <<"B">>, <<>>)
        \/ \E b \in DashboardButtons : dashboard_click(s, b)
        \/ manage_subjects_add(s, <<"M">>, <<>>)
        \/ \E id \in DOMAIN subjects : manage_subjects_update(s, id, <<"M">>, <<>>)
        \/ \E id \in DOMAIN subjects : manage_subjects_delete(s, id)
        \/ \E sid \in DOMAIN subjects : manage_chapters_add(s, sid, <<"A">>, <<>>)
        \/ \E id \in DOMAIN chapters, sid \in DOMAIN subjects :
              manage_chapters_update(s, id, sid, <<"A">>, <<>>)
        \/ \E id \in DOMAIN chapters : manage_chapters_delete(s, id)
        \/ \E cid \in DOMAIN chapters :
              manage_quizzes_add(s, cid, <<"Q">>, <<>>, 1, <<"0", ":", "1">>)
        \/ \E id \in DOMAIN quizzes, cid \in DOMAIN chapters, a \in BOOLEAN :
              manage_quizzes_update(s, id, cid, <<"Q">>, <<>>, 1, <<"0", ":", "1">>, a)
        \/ \E id \in DOMAIN quizzes : manage_quizzes_delete(s, id)
        \/ \E qid \in DOMAIN quizzes :
              manage_questions_add(s, qid, <<"?">>, <<"A">>, <<"B">>, <<>>, <<>>, 1)
        \/ \E id \in DOMAIN questions, qid \in DOMAIN quizzes :
              manage_questions_update(s, id, qid, <<"?">>, <<"A">>, <<"B">>, <<>>, <<>>, 2)
        \/ \E id \in DOMAIN questions : manage_questions_delete(s, id)
        \/ \E id \in DOMAIN users :
              manage_users_update(s, id, <<"B">>, <<"q">>, 1, <<>>, "user")
        \/ \E id \in DOMAIN users : manage_users_delete(s, id)
        \/ \E q \in DOMAIN quizzes \cup {0}, sub \in BOOLEAN :
              \E picks \in Picks(q) : take_quiz(s, q, sub, picks, 1)

SpecApp == Init /\ [][AppNext]_vars

(***************************************************************************)
(* Specification SpecCatalog: the catalog and the quiz pages.  It starts   *)
(* where SpecApp arrives once bob and carol have registered and logged in: *)
(* session 1 is the admin's, on the admin dashboard, and every other       *)
(* session is bob's or carol's, on the user dashboard.  No run leaves      *)
(* either dashboard (admin_dashboard and user_dashboard have no exit).     *)
(***************************************************************************)
UserRow(username) ==
    [username |-> username, password |-> "pw", full_name |-> <<"B">>,
     qualification |-> NULL, dob |-> NoDate, role |-> "user", email |-> <<>>,
     last_login |-> 1]

DashboardSessions == 1..(NumSessions + 1)

InitCatalog ==
    /\ users = <<[AdminRow EXCEPT !.last_login = 1], UserRow("bob"), UserRow("carol")>>
    /\ subjects = <<>>
    /\ chapters = <<>>
    /\ quizzes = <<>>
    /\ questions = <<>>
    /\ scores = <<>>
    /\ sqlite_sequence = [users |-> 3, subjects |-> 0, chapters |-> 0,
                          quizzes |-> 0, questions |-> 0, scores |-> 0]
    /\ session_state \in [DashboardSessions -> 
          {[page |-> "admin_dashboard", username |-> "admin", role |-> "admin"],
           [page |-> "user_dashboard", username |-> "bob", role |-> "user"],
           [page |-> "user_dashboard", username |-> "carol", role |-> "user"]}]
    /\ \A s \in DashboardSessions : page(s) = "admin_dashboard" <=> s = 1
    /\ last_run = NoRun
    /\ in_flight = [s \in DOMAIN session_state |-> Idle]
    /\ interleaved = FALSE

CatalogNext ==
    /\ UNCHANGED runs
    /\ \E s \in DashboardSessions :
        \/ manage_subjects_add(s, <<"M">>, <<>>)
        \/ \E id \in DOMAIN subjects : manage_subjects_update(s, id, <<"M">>, <<>>)
        \/ \E id \in DOMAIN subjects : manage_subjects_delete(s, id)
        \/ \E sid \in DOMAIN subjects : manage_chapters_add(s, sid, <<"A">>, <<>>)
        \/ \E id \in DOMAIN chapters, sid \in DOMAIN subjects :
              manage_chapters_update(s, id, sid, <<"A">>, <<>>)
        \/ \E id \in DOMAIN chapters : manage_chapters_delete(s, id)
        \/ \E cid \in DOMAIN chapters :
              manage_quizzes_add(s, cid, <<"Q">>, <<>>, 1, <<"0", ":", "1">>)
        \/ \E id \in DOMAIN quizzes, cid \in DOMAIN chapters, a \in BOOLEAN :
              manage_quizzes_update(s, id, cid, <<"Q">>, <<>>, 1, <<"0", ":", "1">>, a)
        \/ \E id \in DOMAIN quizzes : manage_quizzes_delete(s, id)
        \/ \E qid \in DOMAIN quizzes :
              manage_questions_add(s, qid, <<"?">>, <<"A">>, <<"B">>, <<>>, <<>>, 1)
        \/ \E id \in DOMAIN questions, qid \in DOMAIN quizzes :
              manage_questions_update(s, id, qid, <<"?">>, <<"A">>, <<"B">>, <<>>, <<>>, 2)
        \/ \E id \in DOMAIN questions : manage_questions_delete(s, id)
        \/ \E id \in DOMAIN users : manage_users_delete(s, id)
        \/ \E q \in DOMAIN quizzes \cup {0}, sub \in BOOLEAN :
              \E picks \in Picks(q) : take_quiz(s, q, sub, picks, 1)

SpecCatalog == InitCatalog /\ [][CatalogNext]_vars

(***************************************************************************)
(* Specification SpecGrading: question authoring and grading.  It starts   *)
(* where SpecApp arrives once the admin has added a subject, a chapter and *)
(* a quiz: session 1 is the admin's, on the admin dashboard, session 2 is  *)
(* bob's, on the user dashboard.  The add and edit forms are filled with   *)
(* one of QuestionForms.                                                   *)
(***************************************************************************)
Form(option1, option2, option3, option4, correct_option) ==
    [option1 |-> option1, option2 |-> option2, option3 |-> option3,
     option4 |-> option4, correct_option |-> correct_option]

QuestionForms ==
    { Form(<<"A">>, <<"B">>, <<"C">>, <<"D">>, 3),   \* four options
      Form(<<"A">>, <<"A">>, <<>>, <<" ">>, 2),      \* the same text twice
      Form(<<"A">>, <<"B">>, <<>>, <<>>, 3),         \* option 3 left empty
      Form(<<" ">>, <<"B">>, <<>>, <<>>, 1),         \* option 1 only a space
      Form(<<>>, <<"B">>, <<>>, <<>>, 1) }           \* option 1 left empty

GradingSessions == {1, 2}

InitGrading ==
    /\ users = <<[AdminRow EXCEPT !.last_login = 1], UserRow("bob")>>
    /\ subjects = <<[name |-> <<"M">>, description |-> <<>>]>>
    /\ chapters = <<[subject_id |-> 1, name |-> <<"A">>, description |-> <<>>]>>
    /\ quizzes = <<[chapter_id |-> 1, name |-> <<"Q">>, description |-> <<>>,
                    date_of_quiz |-> 1, time_duration |-> <<"0", "0", ":", "1", "0">>,
                    is_active |-> 1]>>
    /\ questions = <<>>
    /\ scores = <<>>
    /\ sqlite_sequence = [users |-> 2, subjects |-> 1, chapters |-> 1,
                          quizzes |-> 1, questions |-> 0, scores |-> 0]
    /\ session_state =
          <<[page |-> "admin_dashboard", username |-> "admin", role |-> "admin"],
            [page |-> "user_dashboard", username |-> "bob", role |-> "user"]>>
    /\ last_run = NoRun
    /\ in_flight = [s \in DOMAIN session_state |-> Idle]
    /\ interleaved = FALSE

GradingNext ==
    /\ UNCHANGED runs
    /\ \E s \in GradingSessions :
        \/ \E f \in QuestionForms :
              manage_questions_add(s, 1, <<"?">>, f.option1, f.option2, f.option3,
                                   f.option4, f.correct_option)
        \/ \E id \in DOMAIN questions, f \in QuestionForms :
              manage_questions_update(s, id, 1, <<"?">>, f.option1, f.option2,
                                      f.option3, f.option4, f.correct_option)
        \/ \E id \in DOMAIN questions : manage_questions_delete(s, id)
        \/ \E sub \in BOOLEAN, picks \in Picks(1) : take_quiz(s, 1, sub, picks, 1)

SpecGrading == InitGrading /\ [][GradingNext]_vars

(***************************************************************************)
(* Specification SpecForms: the texts typed into the catalog forms.  It     *)
(* starts where SpecApp arrives once bob has registered and both have       *)
(* logged in: session 1 is the admin's, on the admin dashboard, session 2   *)
(* is bob's, on the user dashboard.  Names are drawn from Names, durations  *)
(* from Durations.                                                          *)
(***************************************************************************)
Names == {<<>>, <<" ">>, <<"Q", " ">>}

Durations ==
    { <<"0", "0", ":", "3", "0">>,         \* 00:30
      <<"2", "5", ":", "0", "0">>,         \* 25:00
      <<"0", "0", ":", "6", "0">>,         \* 00:60
      <<" ", "1", ":", "7", "5">>,         \* minutes 75, hours with a space
      <<"-", "1", ":", "0", "0">>,         \* negative hours
      <<"0", ":", "-", "5">>,              \* negative minutes
      <<" ", "1", ":", "+", "5">>,         \* what int() still accepts
      <<"0", ":", "5", ":", "0">>,         \* three pieces
      <<"x", ":", "1">>,                   \* not a number
      <<":">>,                             \* two empty pieces
      <<"3", "0">>,                        \* no colon
      <<>> }                               \* left empty

InitForms ==
    /\ users = <<[AdminRow EXCEPT !.last_login = 1], UserRow("bob")>>
    /\ subjects = <<>>
    /\ chapters = <<>>
    /\ quizzes = <<>>
    /\ questions = <<>>
    /\ scores = <<>>
    /\ sqlite_sequence = [users |-> 2, subjects |-> 0, chapters |-> 0,
                          quizzes |-> 0, questions |-> 0, scores |-> 0]
    /\ session_state =
          <<[page |-> "admin_dashboard", username |-> "admin", role |-> "admin"],
            [page |-> "user_dashboard", username |-> "bob", role |-> "user"]>>
    /\ last_run = NoRun
    /\ in_flight = [s \in DOMAIN session_state |-> Idle]
    /\ interleaved = FALSE

FormsNext ==
    /\ UNCHANGED runs
    /\ \E s \in GradingSessions :
        \/ \E n \in Names : manage_subjects_add(s, n, <<>>)
        \/ \E id \in DOMAIN subjects, n \in Names : manage_subjects_update(s, id, n, <<>>)
        \/ \E sid \in DOMAIN subjects, n \in Names : manage_chapters_add(s, sid, n, <<>>)
        \/ \E id \in DOMAIN chapters, sid \in DOMAIN subjects, n \in Names :
              manage_chapters_update(s, id, sid, n, <<>>)
        \/ \E cid \in DOMAIN chapters, n \in Names, d \in Durations :
              manage_quizzes_add(s, cid, n, <<>>, 1, d)
        \/ \E id \in DOMAIN quizzes, cid \in DOMAIN chapters, n \in Names, d \in Durations :
              manage_quizzes_update(s, id, cid, n, <<>>, 1, d, TRUE)
        \/ \E qid \in DOMAIN quizzes :
              manage_questions_add(s, qid, <<"?">>, <<"A">>, <<"B">>, <<>>, <<>>, 1)
        \/ \E q \in DOMAIN quizzes \cup {0}, sub \in BOOLEAN :
              \E picks \in Picks(q) : take_quiz(s, q, sub, picks, 1)

SpecForms == InitForms /\ [][FormsNext]_vars

(***************************************************************************)
(* Specification SpecScenario: a fresh deployment driven with the texts of  *)
(* the end-to-end scenario: the admin's login, Subject 'Math', Chapter      *)
(* 'Algebra', Quiz 'Quiz1' of '00:10', the question '2+2=?' with options    *)
(* 3, 4, 5, 6 and correct option 2, the registration and login of bob, and  *)
(* bob's runs of take_quiz with any of the four radio entries.              *)
(***************************************************************************)
ScenarioLogins == {<<"admin", "admin123">>, <<"bob", "pw">>}

ScenarioNext ==
    /\ UNCHANGED runs
    /\ \E s \in Sessions :
        \/ \E l \in ScenarioLogins : login_page_submit(s, l[1], l[2], 1)
        \/ login_page_register(s)
        \/ register_page_submit(s, "bob", "pw", "pw", <<"B", "o", "b">>, <<>>)
        \/ \E b \in DashboardButtons \ {"Logout"} : dashboard_click(s, b)
        \/ manage_subjects_add(s, <<"M", "a", "t", "h">>, <<>>)
        \/ \E sid \in DOMAIN subjects :
              manage_chapters_add(s, sid, <<"A", "l", "g", "e", "b", "r", "a">>, <<>>)
        \/ \E cid \in DOMAIN chapters :
              manage_quizzes_add(s, cid, <<"Q", "u", "i", "z", "1">>, <<>>, 1,
                                 <<"0", "0", ":", "1", "0">>)
        \/ \E qid \in DOMAIN quizzes :
              manage_questions_add(s, qid, <<"2", "+", "2", "=", "?">>,
                                   <<"3">>, <<"4">>, <<"5">>, <<"6">>, 2)
        \/ \E q \in DOMAIN quizzes \cup {0}, sub \in BOOLEAN :
              \E picks \in Picks(q) : take_quiz(s, q, sub, picks, 1)

SpecScenario == Init /\ [][ScenarioNext]_vars

(***************************************************************************)
(* Specification SpecStartup: Spec with the server started again at any    *)
(* moment.                                                                 *)
(***************************************************************************)
StartupNext == AccountsNext \/ (init_db /\ UNCHANGED runs)

SpecStartup == Init /\ [][StartupNext]_vars

(***************************************************************************)
(* Specification SpecReports: SpecCatalog with the Reports page.           *)
(***************************************************************************)
ReportsNext ==
    \/ CatalogNext
    \/ UNCHANGED runs /\ \E s \in DashboardSessions : admin_reports(s)

SpecReports == InitCatalog /\ [][ReportsNext]_vars

(***************************************************************************)
(* Specification SpecProfile: the profile page next to user management.    *)
(* It starts as SpecForms does: the admin on the admin dashboard, bob on   *)
(* the user dashboard.                                                     *)
(***************************************************************************)
ProfilePasswords == {"", "admin123", "pw"}

ProfileNext ==
    /\ UNCHANGED runs
    /\ \E s \in GradingSessions :
        \/ \E f \in {<<"B">>, <<" ", "Z">>}, q \in {NULL, <<"q", " ">>} :
              \E p \in {"", "admin123"}, c \in ProfilePasswords :
                 user_profile_update(s, f, q, 1, <<"e">>, p, c)
        \/ \E id \in DOMAIN users, r \in Roles :
              manage_users_update(s, id, <<"A", " ">>, <<"q", " ">>, 1, <<>>, r)
        \/ \E id \in DOMAIN users : manage_users_delete(s, id)

SpecProfile == InitForms /\ [][ProfileNext]_vars

(***************************************************************************)
(* Specification SpecRace: two admin sessions and two sessions of bob with *)
(* their runs side by side.  It starts with a subject and any prefix of    *)
(* the chain chapter, quiz, question under it.                             *)
(***************************************************************************)
RaceSessions == 1..4

\* how much of the chain subject, chapter, quiz, question stands at the start
ChainDepths == 1..4

InitRace ==
    /\ users = <<[AdminRow EXCEPT !.last_login = 1], UserRow("bob")>>
    /\ \E depth \in ChainDepths :
          /\ subjects = <<[name |-> <<"M">>, description |-> <<>>]>>
          /\ chapters = IF depth >= 2
                        THEN <<[subject_id |-> 1, name |-> <<"A">>, description |-> <<>>]>>
                        ELSE <<>>
          /\ quizzes = IF depth >= 3
                       THEN <<[chapter_id |-> 1, name |-> <<"Q">>, description |-> <<>>,
                               date_of_quiz |-> 1, time_duration |-> <<"0", ":", "1">>,
                               is_active |-> 1]>>
                       ELSE <<>>
          /\ questions = IF depth >= 4
                         THEN <<QuestionRow(1, <<"?">>, <<"A">>, <<"B">>, <<>>, <<>>, 1)>>
                         ELSE <<>>
          /\ sqlite_sequence = [users |-> 2, subjects |-> 1,
                                chapters |-> IF depth >= 2 THEN 1 ELSE 0,
                                quizzes |-> IF depth >= 3 THEN 1 ELSE 0,
                                questions |-> IF depth >= 4 THEN 1 ELSE 0,
                                scores |-> 0]
    /\ scores = <<>>
    /\ session_state =
          <<[page |-> "admin_dashboard", username |-> "admin", role |-> "admin"],
            [page |-> "admin_dashboard", username |-> "admin", role |-> "admin"],
            [page |-> "user_dashboard", username |-> "bob", role |-> "user"],
            [page |-> "user_dashboard", username |-> "bob", role |-> "user"]>>
    /\ last_run = NoRun
    /\ in_flight = [s \in DOMAIN session_state |-> Idle]
    /\ interleaved = FALSE

RaceNext ==
    \E s \in RaceSessions :
        \/ Atomically(s, \E sid \in DOMAIN subjects :
                            manage_chapters_add(s, sid, <<"A">>, <<>>))
        \/ Atomically(s, \E cid \in DOMAIN chapters :
                            manage_quizzes_add(s, cid, <<"Q">>, <<>>, 1, <<"0", ":", "1">>))
        \/ Atomically(s, \E qid \in DOMAIN quizzes :
                            manage_questions_add(s, qid, <<"?">>, <<"A">>, <<"B">>, <<>>, <<>>, 1))
        \/ Atomically(s, \E q \in DOMAIN quizzes \cup {0} :
                            \E picks \in Picks(q) : take_quiz(s, q, FALSE, picks, 1))
        \/ \E q \in DOMAIN quizzes : take_quiz_read(s, q)
        \/ take_quiz_write(s)
        \/ \E id \in DOMAIN subjects : manage_subjects_delete_count(s, id)
        \/ manage_subjects_delete_execute(s)
        \/ \E id \in DOMAIN chapters : manage_chapters_delete_count(s, id)
        \/ manage_chapters_delete_execute(s)
        \/ \E id \in DOMAIN quizzes : manage_quizzes_delete_count(s, id)
        \/ manage_quizzes_delete_execute(s)

SpecRace == InitRace /\ [][RaceNext]_vars

(***************************************************************************)
(* Specification SpecSessions: the runs of Spec with a user who is never    *)
(* kept from logging out: the application keeps serving runs, and a session *)
(* that is offered the Logout button again and again clicks it.             *)
(***************************************************************************)
\* the click on Logout, the one place that clears session_state
Logout(s) == dashboard_click(s, "Logout") /\ UNCHANGED runs

SpecSessions ==
    /\ Init
    /\ [][AccountsNext]_vars
    /\ WF_vars(AccountsNext)
    /\ \A s \in Sessions : SF_vars(Logout(s))

(***************************************************************************)
(* Properties.                                                             *)
(***************************************************************************)
\* the id of the user row a session's username names, 0 when there is none
SessionUserId(s) ==
    IF HasUsername(s) /\ \E id \in DOMAIN users : users[id].username = session_state[s].username
    THEN CHOOSE id \in DOMAIN users : users[id].username = session_state[s].username
    ELSE 0

HasScore(user_id, quiz_id) ==
    \E x \in DOMAIN scores : scores[x].user_id = user_id /\ scores[x].quiz_id = quiz_id

\* C1: with every run handled to completion, no two Score rows share their
\* (user_id, quiz_id) pair.
C1_OneScorePerUserAndQuiz ==
    \A x, y \in DOMAIN scores :
        (scores[x].user_id = scores[y].user_id /\ scores[x].quiz_id = scores[y].quiz_id)
            => x = y

\* C1 witness: two sessions of one user are on the user dashboard, the user has
\* a Score row, and the submission handled last was turned away.
C1_Witness ==
    /\ last_run.op = "take_quiz"
    /\ last_run.args[2] = TRUE
    /\ last_run.msg = "You have already taken this quiz."
    /\ \E s \in DOMAIN session_state \ {last_run.s} :
          /\ page(s) = "user_dashboard"
          /\ session_state[s].username = session_state[last_run.s].username
    /\ HasScore(SessionUserId(last_run.s), last_run.args[1])

\* C2: a Score row is never updated or deleted, and a take_quiz run of a user
\* who has a Score row for the selected quiz shows "already taken" and writes
\* nothing, whatever the quiz's questions are by then.
C2_Step ==
    /\ \A x \in DOMAIN scores : x \in DOMAIN scores' /\ scores'[x] = scores[x]
    /\ (/\ last_run'.op = "take_quiz"
        /\ HasScore(SessionUserId(last_run'.s), last_run'.args[1]))
          => /\ last_run'.msg = "You have already taken this quiz."
             /\ UNCHANGED db

C2_ScoreIsTerminal == [][C2_Step]_vars

\* C2 witness: a user who has a Score row opened the quiz again after all its
\* questions were deleted, and was told it is already taken.
C2_Witness ==
    /\ last_run.op = "take_quiz"
    /\ last_run.args[2] = FALSE
    /\ last_run.msg = "You have already taken this quiz."
    /\ QuestionsOf(last_run.args[1]) = {}

\* C3: a row of subjects, chapters, quizzes or users disappears only in a
\* step that starts with no chapter, quiz, question or Score row referring to
\* it, and a delete run on a row that has such dependents changes no table.
C3_Step ==
    /\ \A id \in DOMAIN subjects \ DOMAIN subjects' :
          \A c \in DOMAIN chapters : chapters[c].subject_id # id
    /\ \A id \in DOMAIN chapters \ DOMAIN chapters' :
          \A q \in DOMAIN quizzes : quizzes[q].chapter_id # id
    /\ \A id \in DOMAIN quizzes \ DOMAIN quizzes' :
          \A q \in DOMAIN questions : questions[q].quiz_id # id
    /\ \A id \in DOMAIN users \ DOMAIN users' :
          \A x \in DOMAIN scores : scores[x].user_id # id
    /\ (/\ last_run'.op = "delete_subject"
        /\ \E c \in DOMAIN chapters : chapters[c].subject_id = last_run'.args[1])
          => UNCHANGED db /\ last_run'.msg = "Cannot delete - subject has chapters!"
    /\ (/\ last_run'.op = "delete_chapter"
        /\ \E q \in DOMAIN quizzes : quizzes[q].chapter_id = last_run'.args[1])
          => UNCHANGED db /\ last_run'.msg = "Cannot delete - chapter has quizzes!"
    /\ (/\ last_run'.op = "delete_quiz"
        /\ \E q \in DOMAIN questions : questions[q].quiz_id = last_run'.args[1])
          => UNCHANGED db /\ last_run'.msg = "Cannot delete - quiz has questions!"
    /\ (/\ last_run'.op = "delete_user"
        /\ \E x \in DOMAIN scores : scores[x].user_id = last_run'.args[1])
          => UNCHANGED db /\ last_run'.msg \in {"Cannot delete - user has quiz attempts!",
                                                "Cannot delete admin user!"}

C3_DeleteGuards == [][C3_Step]_vars

\* C3 witness: the delete of a user who has a Score row was refused while the
\* whole chain subject, chapter, quiz, question stands.
C3_Witness ==
    /\ last_run.op = "delete_user"
    /\ last_run.msg = "Cannot delete - user has quiz attempts!"
    /\ \E x \in DOMAIN scores : scores[x].user_id = last_run.args[1]
    /\ \E q \in DOMAIN questions :
          /\ questions[q].quiz_id \in DOMAIN quizzes
          /\ quizzes[questions[q].quiz_id].chapter_id \in DOMAIN chapters
          /\ chapters[quizzes[questions[q].quiz_id].chapter_id].subject_id \in DOMAIN subjects

\* the refusals of the three catalog deletes are reached as well
C3_SubjectRefused == last_run.msg = "Cannot delete - subject has chapters!"
C3_ChapterRefused == last_run.msg = "Cannot delete - chapter has quizzes!"
C3_QuizRefused == last_run.msg = "Cannot delete - quiz has questions!"

\* C4: every Score row's quiz_id names an existing quiz and its user_id names
\* an existing user (a quiz that has a Score row is never deleted).
C4_ScoresReferToExistingRows ==
    \A x \in DOMAIN scores :
        /\ scores[x].quiz_id \in DOMAIN quizzes
        /\ scores[x].user_id \in DOMAIN users

\* C5: the user row with username 'admin' exists in every reachable state.
C5_SeededAdminExists ==
    \E id \in DOMAIN users : users[id].username = "admin"

\* C6: a registration run whose username is already stored fails and leaves
\* the users table as it is; one with a new username and matching passwords
\* inserts exactly one row, of role 'user', and leaves every other row as it
\* is; usernames are unique in every state.
C6_Unique ==
    \A i, j \in DOMAIN users : users[i].username = users[j].username => i = j

C6_Step ==
    last_run'.op = "register" =>
        LET username == last_run'.args[1]
            password == last_run'.args[2]
            confirm_password == last_run'.args[3]
            stored == \E id \in DOMAIN users : users[id].username = username
        IN /\ stored =>
                /\ last_run'.msg # "ok"
                /\ users' = users
           /\ (~stored /\ password = confirm_password) =>
                /\ last_run'.msg = "ok"
                /\ Cardinality(DOMAIN users' \ DOMAIN users) = 1
                /\ \A id \in DOMAIN users' \ DOMAIN users :
                      /\ users'[id].username = username
                      /\ users'[id].password = password
                      /\ users'[id].role = "user"
                /\ \A id \in DOMAIN users : id \in DOMAIN users' /\ users'[id] = users[id]

C6_Registration == []C6_Unique /\ [][C6_Step]_vars

\* C6 witness: bob, registered earlier, is submitted again and turned away.
C6_Witness ==
    /\ last_run.op = "register"
    /\ last_run.args[1] = "bob"
    /\ last_run.args[2] = last_run.args[3]
    /\ last_run.msg = "Username already exists!"
    /\ \E id \in DOMAIN users : users[id].username = "bob" /\ users[id].role = "user"

\* the successful registration and the password mismatch are reached as well
C6_Registered == last_run.op = "register" /\ last_run.msg = "ok"
C6_Mismatch == last_run.op = "register" /\ last_run.msg = "Passwords don't match!"

\* C7: a login run authenticates exactly when a row with the submitted
\* username and the submitted password exists; then the session's username is
\* the submitted one, its page is 'dashboard' and that row's last_login is the
\* time of the run, nothing else changing; otherwise nothing changes.
C7_Step ==
    last_run'.op = "login" =>
        LET s == last_run'.s
            username == last_run'.args[1]
            password == last_run'.args[2]
            now == last_run'.args[3]
            match == \E id \in DOMAIN users :
                        users[id].username = username /\ users[id].password = password
        IN IF match
           THEN /\ last_run'.msg = "ok"
                /\ "username" \in DOMAIN session_state'[s]
                /\ session_state'[s].username = username
                /\ session_state'[s].page = "dashboard"
                /\ \A o \in DOMAIN session_state \ {s} :
                      session_state'[o] = session_state[o]
                /\ DOMAIN users' = DOMAIN users
                /\ \A id \in DOMAIN users :
                      users'[id] = IF users[id].username = username
                                   THEN [users[id] EXCEPT !.last_login = now]
                                   ELSE users[id]
                /\ UNCHANGED <<catalog, scores, sqlite_sequence>>
           ELSE /\ last_run'.msg = "Invalid credentials"
                /\ UNCHANGED <<db, session_state>>

C7_Login == [][C7_Step]_vars

\* C7 witness: bob logged in with the stored password.
C7_Witness ==
    /\ last_run.op = "login"
    /\ last_run.msg = "ok"
    /\ last_run.args[1] = "bob"
    /\ session_state[last_run.s].username = "bob"
    /\ page(last_run.s) = "dashboard"
    /\ \E id \in DOMAIN users :
          users[id].username = "bob" /\ users[id].last_login = last_run.args[3]

\* a stored username with another user's password is turned away
C7_WrongPassword ==
    /\ last_run.op = "login"
    /\ last_run.msg = "Invalid credentials"
    /\ \E id \in DOMAIN users : users[id].username = last_run.args[1]

\* C8: a click on a dashboard button is answered from the role the users table
\* holds for the session's username when the run starts: 'Go to Admin
\* Dashboard' opens the admin dashboard exactly when that role is 'admin',
\* 'Go to User Dashboard' opens the user dashboard exactly when it is not.
C8_Step ==
    last_run'.op = "dashboard" =>
        LET s == last_run'.s
            button == last_run'.args[1]
            stored_admin == \E id \in DOMAIN users :
                               /\ users[id].username = session_state[s].username
                               /\ users[id].role = "admin"
        IN /\ button = "Go to Admin Dashboard" =>
                (session_state'[s].page = "admin_dashboard" <=> stored_admin)
           /\ button = "Go to User Dashboard" =>
                (session_state'[s].page = "user_dashboard" <=> ~stored_admin)

C8_RoleReadAtCheck == [][C8_Step]_vars

\* C8 witness: bob logged in as a user, was made an admin meanwhile, and the
\* click on 'Go to Admin Dashboard' opened the admin dashboard.
C8_Witness ==
    /\ last_run.op = "dashboard"
    /\ last_run.args[1] = "Go to Admin Dashboard"
    /\ session_state[last_run.s].username = "bob"
    /\ session_state[last_run.s].role = "user"
    /\ page(last_run.s) = "admin_dashboard"

\* the other direction: a session that logged in as an admin, demoted
\* meanwhile, is sent to the user dashboard
C8_Demoted ==
    /\ last_run.op = "dashboard"
    /\ last_run.args[1] = "Go to User Dashboard"
    /\ session_state[last_run.s].role = "admin"
    /\ page(last_run.s) = "user_dashboard"

\* C9: every stored question has correct_option in 1..4 and the option slot it
\* names is populated.
C9_CorrectOptionPopulated ==
    \A q \in DOMAIN questions :
        /\ questions[q].correct_option \in 1..4
        /\ Truthy(OptionSlots(q)[questions[q].correct_option])

\* the option number C10 describes: the lowest slot whose text equals the
\* selected text, 0 when there is none
LowestEqualSlot(q, user_answer) ==
    IF \E i \in 1..4 : OptionSlots(q)[i] = user_answer
    THEN CHOOSE i \in 1..4 :
            /\ OptionSlots(q)[i] = user_answer
            /\ \A j \in 1..(i - 1) : OptionSlots(q)[j] # user_answer
    ELSE 0

\* C10: the Score row of a submission has total_scored equal to the number of
\* questions whose lowest slot holding the selected text is correct_option,
\* and total_questions equal to the number of questions of the quiz.
C10_Grading ==
    (last_run.op = "take_quiz" /\ last_run.msg = "Quiz submitted!") =>
        LET quiz_id == last_run.args[1]
            answers == last_run.args[3]
            row == scores[sqlite_sequence.scores]
        IN /\ row.quiz_id = quiz_id
           /\ row.total_questions = Cardinality(QuestionsOf(quiz_id))
           /\ row.total_scored =
                 Cardinality({q \in QuestionsOf(quiz_id) :
                    LowestEqualSlot(q, answers[q]) = questions[q].correct_option})

\* the run handled last is a quiz create or update; its duration and name
QuizRun == last_run.op \in {"add_quiz", "edit_quiz"}
QuizRunDuration == IF last_run.op = "add_quiz" THEN last_run.args[5] ELSE last_run.args[6]
QuizRunName == IF last_run.op = "add_quiz" THEN last_run.args[2] ELSE last_run.args[3]
QuizRunAccepted == last_run.msg \in {"Quiz added!", "Quiz updated!"}

\* C11: a quiz create or update with duration "25:00" is rejected, one with
\* "00:30" (and a name) is accepted, and one whose minutes part is 60 or more
\* is rejected.
C11_DurationRule ==
    QuizRun =>
        /\ QuizRunDuration = <<"2", "5", ":", "0", "0">> => ~QuizRunAccepted
        /\ (QuizRunDuration = <<"0", "0", ":", "3", "0">> /\ QuizRunName # <<>>)
              => QuizRunAccepted
        /\ (/\ DurationParses(QuizRunDuration)
            /\ int(split(QuizRunDuration, ":")[2]) >= 60) => ~QuizRunAccepted

\* C12: every stored quiz has a time_duration that splits on ':' into two
\* integers with hours >= 0 and 0 <= minutes < 60, no run of take_quiz fails,
\* and a rejected quiz create or update leaves every table as it is.
C12_Stored ==
    \A q \in DOMAIN quizzes :
        LET pieces == split(quizzes[q].time_duration, ":")
        IN /\ Len(pieces) = 2
           /\ IsIntLiteral(pieces[1]) /\ IsIntLiteral(pieces[2])
           /\ int(pieces[1]) >= 0
           /\ int(pieces[2]) >= 0 /\ int(pieces[2]) < 60

C12_Step ==
    /\ last_run'.op = "take_quiz" => last_run'.msg # "exception"
    /\ (/\ last_run'.op \in {"add_quiz", "edit_quiz"}
        /\ last_run'.msg \notin {"Quiz added!", "Quiz updated!"}) => UNCHANGED db

C12_StoredDurationParses == []C12_Stored /\ [][C12_Step]_vars

\* C12 witness: a quiz stored with a duration int() accepts but HH:MM does not
\* show (" 1:+5") was opened by bob, who got the form.
C12_Witness ==
    /\ last_run.op = "take_quiz"
    /\ last_run.msg = "form"
    /\ quizzes[last_run.args[1]].time_duration = <<" ", "1", ":", "+", "5">>

\* a create with minutes 60 was rejected and wrote nothing
C12_Rejected ==
    /\ last_run.op = "add_quiz"
    /\ last_run.args[5] = <<"0", "0", ":", "6", "0">>
    /\ last_run.msg = "Invalid duration format! Use HH:MM"

\* C13: no stored subject, chapter or quiz has an empty name, and a create or
\* update whose name is empty after trimming is rejected.
C13_NameRequired ==
    /\ \A id \in DOMAIN subjects : subjects[id].name # <<>>
    /\ \A id \in DOMAIN chapters : chapters[id].name # <<>>
    /\ \A id \in DOMAIN quizzes : quizzes[id].name # <<>>

\* the scenario's catalog stands: Math, Algebra under it, Quiz1 of 00:10 under
\* that, and the one question 2+2=? with options 3, 4, 5, 6 and correct option 2
ScenarioCatalog ==
    /\ DOMAIN subjects = {1} /\ subjects[1].name = <<"M", "a", "t", "h">>
    /\ DOMAIN chapters = {1} /\ chapters[1].subject_id = 1
    /\ chapters[1].name = <<"A", "l", "g", "e", "b", "r", "a">>
    /\ DOMAIN quizzes = {1} /\ quizzes[1].chapter_id = 1
    /\ quizzes[1].name = <<"Q", "u", "i", "z", "1">>
    /\ quizzes[1].time_duration = <<"0", "0", ":", "1", "0">>
    /\ DOMAIN questions = {1} /\ questions[1].quiz_id = 1
    /\ OptionSlots(1) = <<<<"3">>, <<"4">>, <<"5">>, <<"6">>>>
    /\ questions[1].correct_option = 2

\* the run handled last is the submission of Quiz1 with '4' selected, by a
\* registered user
ScenarioSubmitted ==
    /\ ScenarioCatalog
    /\ last_run.op = "take_quiz"
    /\ last_run.msg = "Quiz submitted!"
    /\ last_run.args[1] = 1
    /\ last_run.args[3][1] = <<"4">>

\* C14: once the scenario's catalog stands and the registered user has
\* submitted Quiz1 with '4' selected, there is exactly one Score row for that
\* user and quiz, and it holds total_scored 1 and total_questions 1.
C14_Scenario ==
    ScenarioSubmitted =>
        LET user_id == SessionUserId(last_run.s)
            rows == {x \in DOMAIN scores :
                        scores[x].user_id = user_id /\ scores[x].quiz_id = 1}
        IN /\ user_id \in DOMAIN users
           /\ users[user_id].role = "user"
           /\ Cardinality(rows) = 1
           /\ \A x \in rows : scores[x].total_scored = 1 /\ scores[x].total_questions = 1

\* C14 witness: the scenario has been run to its end from the fresh state.
C14_Witness ==
    /\ ScenarioSubmitted
    /\ users[SessionUserId(last_run.s)].username = "bob"
    /\ users[1].last_login = 1
    /\ \E x \in DOMAIN scores :
          /\ scores[x].user_id = SessionUserId(last_run.s)
          /\ scores[x].total_scored = 1 /\ scores[x].total_questions = 1

\* C15: a startup changes no existing row, and after every startup a user row
\* with username 'admin' and role 'admin' exists.
C15_AdminAfterStartup ==
    last_run.op = "init_db" =>
        \E id \in DOMAIN users : users[id].username = "admin" /\ users[id].role = "admin"

\* C16: in the tables the Reports page shows, a quiz has an entry exactly when
\* a Score row refers to it, a user exactly when a Score row refers to them,
\* and the attempts of an entry are the number of those Score rows, whatever
\* the quiz's is_active flag is.
C16_Statistics ==
    last_run.op = "admin_reports" =>
        LET shown_quizzes == last_run.args[1]
            shown_users == last_run.args[2]
        IN /\ \A q \in DOMAIN quizzes :
                 /\ q \in DOMAIN shown_quizzes <=>
                       \E x \in DOMAIN scores : scores[x].quiz_id = q
                 /\ q \in DOMAIN shown_quizzes =>
                       shown_quizzes[q].attempts =
                          Cardinality({x \in DOMAIN scores : scores[x].quiz_id = q})
           /\ \A u \in DOMAIN users :
                 /\ u \in DOMAIN shown_users <=>
                       \E x \in DOMAIN scores : scores[x].user_id = u
                 /\ u \in DOMAIN shown_users =>
                       shown_users[u].attempts =
                          Cardinality({x \in DOMAIN scores : scores[x].user_id = u})

\* C16 witness: the page showed a deactivated quiz with its two attempts, and
\* the two users with one attempt each.
C16_Witness ==
    /\ last_run.op = "admin_reports"
    /\ \E q \in DOMAIN quizzes :
          /\ quizzes[q].is_active = 0
          /\ q \in DOMAIN last_run.args[1]
          /\ last_run.args[1][q].attempts = 2
    /\ Cardinality(DOMAIN last_run.args[2]) = 2

\* C17: the scores table changes only by one new row, inserted by a take_quiz
\* submission of the session's user for a quiz that, when the run starts, is
\* active, has a question and has no Score row of that user.
C17_Step ==
    scores' # scores =>
        /\ last_run'.op = "take_quiz"
        /\ last_run'.args[2] = TRUE
        /\ \A x \in DOMAIN scores : x \in DOMAIN scores' /\ scores'[x] = scores[x]
        /\ Cardinality(DOMAIN scores' \ DOMAIN scores) = 1
        /\ \A x \in DOMAIN scores' \ DOMAIN scores :
              LET quiz_id == scores'[x].quiz_id
                  user_id == scores'[x].user_id
              IN /\ quiz_id = last_run'.args[1]
                 /\ quiz_id \in DOMAIN quizzes
                 /\ quizzes[quiz_id].is_active = 1
                 /\ \E q \in DOMAIN questions : questions[q].quiz_id = quiz_id
                 /\ user_id = SessionUserId(last_run'.s)
                 /\ ~\E y \in DOMAIN scores :
                        scores[y].quiz_id = quiz_id /\ scores[y].user_id = user_id

C17_InsertConditions == [][C17_Step]_vars

\* C17 witness: a user who has no Score row pressed Submit while the only
\* quiz, with its question, was deactivated; the run found no quiz to take.
C17_Witness ==
    /\ last_run.op = "take_quiz"
    /\ last_run.args[2] = TRUE
    /\ last_run.msg = "No quizzes available at the moment."
    /\ scores = <<>>
    /\ \E q \in DOMAIN quizzes :
          /\ quizzes[q].is_active = 0
          /\ \E n \in DOMAIN questions : questions[n].quiz_id = q

\* likewise for an active quiz whose questions are gone
C17_NoQuestions ==
    /\ last_run.op = "take_quiz"
    /\ last_run.args[2] = TRUE
    /\ last_run.msg = "This quiz has no questions yet."

\* C18: a profile update changes only the row whose username is the session's,
\* changes no username and no role, changes a password only to a non-empty
\* new password that equals the confirmation, and writes nothing when a
\* non-empty new password differs from the confirmation.
C18_Step ==
    last_run'.op = "update_profile" =>
        LET username == session_state[last_run'.s].username
            new_password == last_run'.args[5]
            confirm_password == last_run'.args[6]
        IN /\ DOMAIN users' = DOMAIN users
           /\ \A id \in DOMAIN users :
                 /\ users[id].username # username => users'[id] = users[id]
                 /\ users'[id].username = users[id].username
                 /\ users'[id].role = users[id].role
                 /\ users'[id].password # users[id].password =>
                       /\ new_password # ""
                       /\ new_password = confirm_password
                       /\ users'[id].password = new_password
           /\ (new_password # "" /\ new_password # confirm_password) =>
                 /\ UNCHANGED db
                 /\ last_run'.msg = "Passwords don't match!"
           /\ UNCHANGED <<catalog, scores, sqlite_sequence, session_state>>

C18_ProfileUpdate == [][C18_Step]_vars

\* C18 witness: bob, promoted to admin meanwhile, changed his name and his
\* password; the admin's row was not touched by the run.
C18_Witness ==
    /\ last_run.op = "update_profile"
    /\ last_run.msg = "Profile updated!"
    /\ last_run.args[5] = "admin123"
    /\ 2 \in DOMAIN users
    /\ users[2].username = "bob" /\ users[2].role = "admin"
    /\ users[2].password = "admin123"
    /\ users[2].full_name = <<"Z">>

\* a new password with another confirmation was turned away
C18_Mismatch ==
    /\ last_run.op = "update_profile"
    /\ last_run.msg = "Passwords don't match!"
    /\ last_run.args[5] = "admin123" /\ last_run.args[6] = "pw"

\* an empty new password with a confirmation typed updates the profile only
C18_EmptyNewPassword ==
    /\ last_run.op = "update_profile"
    /\ last_run.msg = "Profile updated!"
    /\ last_run.args[5] = "" /\ last_run.args[6] = "pw"

\* two Score rows of one user for one quiz
DuplicateScores ==
    \E x, y \in DOMAIN scores :
        /\ x # y
        /\ scores[x].user_id = scores[y].user_id
        /\ scores[x].quiz_id = scores[y].quiz_id

\* C19: with the attempt check and the INSERT as two steps, the INSERT of a
\* run that passed the check adds its Score row whatever rows the table holds
\* by then, and two Score rows of one user for one quiz exist only after a
\* step of one session fell between the two steps of another's.
C19_Step ==
    \A s \in DOMAIN in_flight :
        (/\ in_flight[s] # Idle
         /\ in_flight[s].op = "take_quiz"
         /\ in_flight'[s] = Idle
         /\ DOMAIN in_flight[s].answers \subseteq DOMAIN questions)
            => \E x \in DOMAIN scores' \ DOMAIN scores :
                  /\ scores'[x].quiz_id = in_flight[s].quiz_id
                  /\ scores'[x].user_id = in_flight[s].user_id

C19_CheckThenInsertRace == [](DuplicateScores => interleaved) /\ [][C19_Step]_vars

\* C19 witness: both sessions of bob passed the check before either inserted,
\* and the table holds two Score rows of bob for the quiz.
C19_Witness ==
    /\ DuplicateScores
    /\ interleaved
    /\ last_run.op = "take_quiz_write"
    /\ last_run.msg = "Quiz submitted!"
    /\ Cardinality(DOMAIN scores) = 2

\* every chapter, quiz and question refers to an existing parent row
ReferentialIntegrity ==
    /\ \A c \in DOMAIN chapters : chapters[c].subject_id \in DOMAIN subjects
    /\ \A q \in DOMAIN quizzes : quizzes[q].chapter_id \in DOMAIN chapters
    /\ \A q \in DOMAIN questions : questions[q].quiz_id \in DOMAIN quizzes

\* C20: as long as no step of one session has fallen between the count and
\* the DELETE of another's, every chapter, quiz and question refers to an
\* existing parent; a child inserted between the two lets the DELETE proceed.
C20_DanglingOnlyByInterleaving == ~interleaved => ReferentialIntegrity

\* C20 witness: a chapter was added between the count and the DELETE of
\* Delete Subject, and refers to a subject that is gone.
C20_Witness ==
    /\ interleaved
    /\ last_run.op = "delete_subject"
    /\ last_run.msg = "Subject deleted!"
    /\ \E c \in DOMAIN chapters : chapters[c].subject_id \notin DOMAIN subjects

\* likewise a quiz of a deleted chapter and a question of a deleted quiz
C20_QuizOrphaned ==
    /\ last_run.msg = "Chapter deleted!"
    /\ \E q \in DOMAIN quizzes : quizzes[q].chapter_id \notin DOMAIN chapters

C20_QuestionOrphaned ==
    /\ last_run.msg = "Quiz deleted!"
    /\ \E q \in DOMAIN questions : questions[q].quiz_id \notin DOMAIN quizzes

\* C21: every Score row has total_questions >= 1 and
\* 0 <= total_scored <= total_questions, so its percentage is a number
\* between 0 and 100.
C21_ScoreBounds ==
    \A x \in DOMAIN scores :
        /\ scores[x].total_questions >= 1
        /\ 0 <= scores[x].total_scored
        /\ scores[x].total_scored <= scores[x].total_questions
        /\ percentage(x) \in 0..100

\* C21 witness: a submission of a quiz with two questions, one answered right
\* and one wrong, has stored its Score row.
C21_Witness ==
    /\ last_run.op = "take_quiz"
    /\ last_run.msg = "Quiz submitted!"
    /\ \E x \in DOMAIN scores :
          /\ scores[x].total_questions = 2
          /\ scores[x].total_scored = 1
          /\ percentage(x) = 50

\* the two ends of the range: nothing right, and everything right
C21_NoneRight ==
    \E x \in DOMAIN scores : scores[x].total_scored = 0 /\ percentage(x) = 0

C21_AllRight ==
    \E x \in DOMAIN scores :
        scores[x].total_scored = scores[x].total_questions /\ percentage(x) = 100

\* the users table holds role 'admin' for the username of session s
StoredAdmin(s) ==
    /\ HasUsername(s)
    /\ \E id \in DOMAIN users :
          /\ users[id].username = session_state[s].username
          /\ users[id].role = "admin"

\* C22: a session is on the admin dashboard, where the catalog, user and
\* report operations run, only while the users table holds role 'admin' for
\* its user.
C22_AdminDashboardOnlyForAdmins ==
    \A s \in DOMAIN session_state : page(s) = "admin_dashboard" => StoredAdmin(s)

\* a session whose user is stored with role 'user' has deleted another user
C22_DemotedDeletes ==
    /\ last_run.op = "delete_user"
    /\ last_run.msg = "User deleted!"
    /\ page(last_run.s) = "admin_dashboard"
    /\ \E id \in DOMAIN users :
          /\ users[id].username = session_state[last_run.s].username
          /\ users[id].role = "user"

\* the values main() dispatches on
Pages == {"login", "register", "dashboard", "admin_dashboard", "user_dashboard"}

AuthenticatedPages == {"dashboard", "admin_dashboard", "user_dashboard"}

\* page is one of the five values, and the session holds a username exactly
\* on the three pages behind the login
C23_Pages ==
    \A s \in DOMAIN session_state :
        /\ page(s) \in Pages
        /\ HasUsername(s) <=> page(s) \in AuthenticatedPages

\* a step that takes a session from a page behind the login to the login
\* page leaves it without username and role
C23_LogoutStep ==
    \A s \in DOMAIN session_state :
        (page(s) \in AuthenticatedPages /\ session_state'[s].page = "login")
            => session_state'[s] = [page |-> "login"]

\* C23: page is one of login, register, dashboard, admin_dashboard and
\* user_dashboard; a session has an identity exactly on the last three; a
\* logout clears the identity and sets page to login; and a session on one of
\* the three pages gets back to the login page.
C23_SessionLifecycle ==
    /\ []C23_Pages
    /\ [][C23_LogoutStep]_vars
    /\ \A s \in Sessions : (page(s) \in AuthenticatedPages) ~> (page(s) = "login")

\* a session on the admin or user dashboard stays on it in every step
C23_DashboardsHaveNoExit ==
    [][\A s \in DOMAIN session_state :
          page(s) \in {"admin_dashboard", "user_dashboard"}
              => session_state'[s] = session_state[s]]_vars

\* the first three parts of C23 on their own
C23_Safety == []C23_Pages /\ [][C23_LogoutStep]_vars

\* a logout has happened: the session is back on the login page, cleared
C23_LoggedOut ==
    /\ last_run.op = "dashboard"
    /\ last_run.args[1] = "Logout"
    /\ session_state[last_run.s] = [page |-> "login"]

=============================================================================
